---- MODULE Spec2Model ----
(***************************************************************************)
(* Waste-bin monitor (src/main.py): ultrasonic distance measurement, the   *)
(* three-way classification with its LEDs, and the e-mail throttle.        *)
(*                                                                         *)
(* Distances are kept exactly, as integers counting 1/582 cm: the source   *)
(* computes (pulse_duration / 2) / 29.1 = pulse_duration * 10 / 582 cm.    *)
(* Wall-clock time (time.time) is in seconds, the tick clock               *)
(* (time.ticks_us) in microseconds modulo TICKS_PERIOD.                    *)
(***************************************************************************)
EXTENDS Integers, Sequences, FiniteSets, TLC

\* ------------------------------------------------------------------ CONFIG
EMPTY == 30
HALF_FULL == 10
EMAIL_DELAY == 300
ECHO_TIMEOUT_US == 30000
SENTINEL_broken == HALF_FULL - 5
SENTINEL == 100
LOOP_SLEEP == 10
RECOVERY_SLEEP == 5
WIFI_TIMEOUT == 10
CREATED == 201
TICKS_PERIOD == 1073741824

\* one centimetre in the unit distances are stored in (1/582 cm)
DistScale == 582
Cm(x) == x * DistScale

\* ------------------------------------------------------------------ bounds
MaxTime == 330
MaxPolls == 2
MaxCalls == 5
MaxFaultTime == 30

\* ------------------------------------------------------------ input samples
\* microseconds that pass between two reads of the tick clock
TickSteps == {582, ECHO_TIMEOUT_US}
\* microseconds between the two clock reads of one loop body
CheckSteps == {0, 582}
\* value of the tick clock when a measurement starts (the second one makes
\* the deadline wrap around)
TickStarts == {0, TICKS_PERIOD - 1000}
\* what urequests.post does: raises, or answers with a status code
Outcomes == {[raised |-> TRUE, status |-> 0],
             [raised |-> FALSE, status |-> CREATED],
             [raised |-> FALSE, status |-> 400]}
\* seconds the HTTP request takes
SendDurations == {0, 10}
\* seconds until the station reports a connection
ConnectDurations == {0, 10}
\* distances (cm) the harness passes to update_bin_status
Distances == {-10, 0, 8, 10, 11, 25, 30, 31, 50, 100}
\* seconds between two harness calls
CallGaps == {1, 299}

VARIABLES
    pc,                   \* position of run() / of the harness
    wifi,                 \* what connect_wifi returned: "none" yet, "up", "down"
    now,                  \* time.time()
    last_email_time, is_currently_full, first_full_detection,
    green_led, yellow_led, red_led,
    ticks,                \* time.ticks_us()
    pulse_start, pulse_end, timeout, polls,
    distance,             \* value handed to update_bin_status
    timed_out,            \* the measurement returned through a deadline branch
    state,                \* classification of the latest update_bin_status
    \* of the current iteration (cleared when it ends):
    entered_full,         \* classified FULL, the one before was not
    retry,                \* classified FULL, the latest FULL one failed to send
    decision,             \* "skip": should_send_email not evaluated; "no"; "yes"
    send_ok,              \* an e-mail was sent successfully
    fault,                \* what raised into run's handler since the latest
                          \* measurement: "none", "measure", "led" or "send"
    gap,                  \* seconds since the successful send before this
                          \* iteration's, if it made one and is not the first; else -1
    gap_same_run,         \* ... and no non-FULL classification lay between
    \* of the whole run:
    fail_pending,         \* the latest FULL iteration attempted and failed
    sent_before,          \* some e-mail was sent successfully
    sent_in_run,          \* ... since the last non-FULL classification
    calls, scn            \* harness: calls made, scenario steps matched

throttle == <<last_email_time, is_currently_full, first_full_detection>>
leds == <<green_led, yellow_led, red_led>>
locals == <<ticks, pulse_start, pulse_end, timeout, polls>>
iteration == <<timed_out, entered_full, retry, decision, send_ok, fault,
              gap, gap_same_run>>
ghosts == <<state, sent_before, sent_in_run, fail_pending>>
harness == <<calls, scn>>
vars == <<pc, wifi, now, throttle, leds, locals, distance, iteration, ghosts,
         harness>>

\* ----------------------------------------------------------- tick helpers
ticks_add(t, d) == (t + d) % TICKS_PERIOD
ticks_diff(a, b) ==
    ((a - b + TICKS_PERIOD \div 2) % TICKS_PERIOD) - TICKS_PERIOD \div 2

\* (pulse_duration / 2) / 29.1, in 1/582 cm
DistanceOf(pulse_duration) == pulse_duration * 10

\* ------------------------------------------------------- pure decisions
Classify_ge(d) ==
    IF d >= Cm(EMPTY) THEN "EMPTY"
    ELSE IF d >= Cm(HALF_FULL) THEN "PARTIAL"
    ELSE "FULL"

\* the if / elif / else of update_bin_status
Classify(d) ==
    IF d > Cm(EMPTY) THEN "EMPTY"
    ELSE IF d > Cm(HALF_FULL) THEN "PARTIAL"
    ELSE "FULL"

\* green, yellow, red as written by the branch taken
LedsFor(cls) ==
    CASE cls = "EMPTY" -> <<1, 0, 0>>
      [] cls = "PARTIAL" -> <<0, 1, 0>>
      [] cls = "FULL" -> <<0, 0, 1>>

ShouldSendEmail_strict(current_time, ffd, last) ==
    IF ffd THEN TRUE
    ELSE IF current_time - last > EMAIL_DELAY THEN TRUE
    ELSE FALSE

ShouldSendEmail_nofirst(current_time, ffd, last) ==
    IF current_time - last >= EMAIL_DELAY THEN TRUE ELSE FALSE

ShouldSendEmail_always(current_time, ffd, last) == TRUE

ShouldSendEmail_once(current_time, ffd, last) == IF ffd THEN TRUE ELSE FALSE

ShouldSendEmail(current_time, ffd, last) ==
    IF ffd THEN TRUE
    ELSE IF current_time - last >= EMAIL_DELAY THEN TRUE
    ELSE FALSE

SendBranch_partial(cls) == cls # "EMPTY"

\* the branch of update_bin_status that holds the send (lines 157-171)
SendBranch(cls) == cls = "FULL"

\* the value send_email_alert returns
SendEmailAlert(o) == IF o.raised THEN FALSE ELSE o.status = CREATED

ResetFlags_noffd(icf, ffd) == IF icf THEN <<FALSE, ffd>> ELSE <<icf, ffd>>

\* <<is_currently_full, first_full_detection>> after a non-FULL branch
ResetFlags(icf, ffd) == IF icf THEN <<FALSE, TRUE>> ELSE <<icf, ffd>>

AfterSend_keepflag(ok, t, last, ffd) == IF ok THEN <<t, ffd>> ELSE <<last, ffd>>

AfterSend_stamp(ok, t, last, ffd) == IF ok THEN <<t, FALSE>> ELSE <<t, ffd>>

\* <<last_email_time, first_full_detection>> after send_email_alert returned ok
AfterSend(ok, t, last, ffd) == IF ok THEN <<t, FALSE>> ELSE <<last, ffd>>

\* ------------------------------------------------------ update_bin_status
\* d: the distance; o: what the HTTP request does if one is made; sd: the
\* seconds it takes
UpdateBinStatus(d, o, sd) ==
    LET cls == Classify(d)
        must == SendBranch(cls)
                /\ ShouldSendEmail(now, first_full_detection, last_email_time)
        ok == must /\ SendEmailAlert(o)
        t == IF must THEN now + sd ELSE now
        sent == AfterSend(ok, t, last_email_time, first_full_detection)
        reset == ResetFlags(is_currently_full, first_full_detection)
    IN  /\ t <= MaxTime
        /\ now' = t
        /\ green_led' = LedsFor(cls)[1]
        /\ yellow_led' = LedsFor(cls)[2]
        /\ red_led' = LedsFor(cls)[3]
        /\ IF cls = "FULL"
           THEN /\ is_currently_full' = TRUE
                /\ IF must
                   THEN /\ last_email_time' = sent[1]
                        /\ first_full_detection' = sent[2]
                   ELSE UNCHANGED <<last_email_time, first_full_detection>>
           ELSE /\ is_currently_full' = reset[1]
                /\ first_full_detection' = reset[2]
                /\ UNCHANGED last_email_time
        /\ distance' = d
        /\ state' = cls
        /\ entered_full' = (cls = "FULL" /\ state # "FULL")
        /\ retry' = (cls = "FULL" /\ fail_pending)
        /\ decision' = IF ~SendBranch(cls) THEN "skip"
                       ELSE IF must THEN "yes" ELSE "no"
        /\ send_ok' = ok
        /\ fault' = "none"
        /\ sent_before' = (sent_before \/ ok)
        /\ sent_in_run' = IF cls = "FULL" THEN (sent_in_run \/ ok) ELSE FALSE
        /\ fail_pending' = IF cls = "FULL" THEN (must /\ ~ok) ELSE fail_pending
        /\ gap' = IF ok /\ sent_before THEN t - last_email_time ELSE -1
        /\ gap_same_run' = (ok /\ sent_in_run)

\* ------------------------------------------------------- measure_distance
\* the steps the clock may take before the next read: after MaxPolls short
\* polls only the long step is left, which carries the clock to the deadline
StepsAt(n) == IF n < MaxPolls THEN TickSteps ELSE {ECHO_TIMEOUT_US}

Expired_swapped(t, deadline) == ticks_diff(deadline, t) > 0

\* lines 73 and 78
Expired(t, deadline) == ticks_diff(t, deadline) > 0

Return(d, by_deadline) ==
    /\ distance' = d
    /\ timed_out' = by_deadline
    /\ pc' = "update"

\* lines 62-69: the trigger pulse, then the first clock read
Trigger ==
    /\ pc = "measure"
    /\ \E t \in TickStarts :
        /\ ticks' = t
        /\ pulse_start' = t
        /\ pulse_end' = t
        /\ timeout' = ticks_add(t, ECHO_TIMEOUT_US)
    /\ polls' = 0
    /\ pc' = "wait_rise"
    /\ UNCHANGED <<now, throttle, leds, distance, iteration, ghosts, harness, wifi>>

\* lines 71-74: one evaluation of the first while
WaitRise ==
    /\ pc = "wait_rise"
    /\ \E echo \in {0, 1} :
        IF echo = 0
        THEN \E dt \in StepsAt(polls), dc \in CheckSteps :
              LET t1 == ticks_add(ticks, dt)
                  t2 == ticks_add(t1, dc)
              IN  /\ pulse_start' = t1
                  /\ ticks' = t2
                  /\ polls' = polls + 1
                  /\ IF Expired(t2, timeout)
                     THEN Return(Cm(SENTINEL), TRUE)
                     ELSE UNCHANGED <<pc, distance, timed_out>>
                  /\ UNCHANGED <<pulse_end, timeout>>
        ELSE /\ pc' = "wait_fall"
             /\ UNCHANGED <<locals, distance, timed_out>>
    /\ UNCHANGED <<now, throttle, leds, ghosts, harness, wifi>>
    /\ UNCHANGED <<entered_full, retry, decision, send_ok, fault, gap, gap_same_run>>

\* lines 76-83: one evaluation of the second while, and the conversion
WaitFall ==
    /\ pc = "wait_fall"
    /\ \E echo \in {0, 1} :
        IF echo = 1
        THEN \E dt \in StepsAt(polls), dc \in CheckSteps :
              LET t1 == ticks_add(ticks, dt)
                  t2 == ticks_add(t1, dc)
              IN  /\ pulse_end' = t1
                  /\ ticks' = t2
                  /\ polls' = polls + 1
                  /\ IF Expired(t2, timeout)
                     THEN Return(Cm(SENTINEL), TRUE)
                     ELSE UNCHANGED <<pc, distance, timed_out>>
                  /\ UNCHANGED <<pulse_start, timeout>>
        ELSE /\ Return(DistanceOf(ticks_diff(pulse_end, pulse_start)), FALSE)
             /\ UNCHANGED locals
    /\ UNCHANGED <<now, throttle, leds, ghosts, harness, wifi>>
    /\ UNCHANGED <<entered_full, retry, decision, send_ok, fault, gap, gap_same_run>>

\* ------------------------------------------------------------------- run
AfterConnect_enter(connected) == "measure"

\* lines 175-176: where run goes with connect_wifi's result
AfterConnect(connected) == IF connected THEN "measure" ELSE "done"

\* connect_wifi, lines 44-58, and run's test of its result, lines 175-176
ConnectWifi ==
    /\ pc = "connect"
    /\ \E connected \in BOOLEAN :
        IF connected
        THEN \E dur \in ConnectDurations :
                /\ now' = now + dur
                /\ wifi' = "up"
                /\ pc' = AfterConnect(TRUE)
        ELSE /\ now' = now + WIFI_TIMEOUT + 1
             /\ wifi' = "down"
             /\ pc' = AfterConnect(FALSE)
    /\ UNCHANGED <<throttle, leds, locals, distance, iteration, ghosts, harness>>

\* line 183
Update ==
    /\ pc = "update"
    /\ \E o \in Outcomes, sd \in SendDurations : UpdateBinStatus(distance, o, sd)
    /\ pc' = "sleep"
    /\ ticks' = 0 /\ pulse_start' = 0 /\ pulse_end' = 0 /\ timeout' = 0 /\ polls' = 0
    /\ UNCHANGED <<timed_out, harness, wifi>>

\* line 184
Sleep ==
    /\ pc = "sleep"
    /\ now + LOOP_SLEEP <= MaxTime
    /\ now' = now + LOOP_SLEEP
    /\ pc' = "measure"
    /\ distance' = 0
    /\ timed_out' = FALSE /\ entered_full' = FALSE /\ retry' = FALSE
    /\ decision' = "skip" /\ send_ok' = FALSE /\ fault' = "none"
    /\ gap' = -1 /\ gap_same_run' = FALSE
    /\ UNCHANGED <<throttle, leds, locals, ghosts, harness, wifi>>

InitCommon ==
    /\ now = 0
    /\ last_email_time = 0
    /\ is_currently_full = FALSE
    /\ first_full_detection = TRUE
    /\ green_led = 0 /\ yellow_led = 0 /\ red_led = 0
    /\ ticks = 0 /\ pulse_start = 0 /\ pulse_end = 0 /\ timeout = 0 /\ polls = 0
    /\ distance = 0
    /\ timed_out = FALSE
    /\ state = "NONE" /\ entered_full = FALSE /\ retry = FALSE
    /\ decision = "skip" /\ fault = "none"
    /\ wifi = "none"
    /\ send_ok = FALSE /\ sent_before = FALSE /\ sent_in_run = FALSE
    /\ fail_pending = FALSE
    /\ gap = -1 /\ gap_same_run = FALSE
    /\ calls = 0 /\ scn = 0

Init == pc = "connect" /\ InitCommon

Next == ConnectWifi \/ Trigger \/ WaitRise \/ WaitFall \/ Update \/ Sleep

Spec == Init /\ [][Next]_vars

\* ------------------------------------------- the clock on a long run
\* The program reads time.time() only in the difference current_time -
\* last_email_time and compares it with EMAIL_DELAY.  Moving the origin of the
\* clock, and forgetting how far beyond EMAIL_DELAY ago the last e-mail was,
\* changes nothing the program can observe; it lets the loop run forever
\* within MaxTime.
Rebase ==
    /\ pc \in {"measure", "update", "sleep", "recover"}
    /\ now > EMAIL_DELAY
    /\ now' = EMAIL_DELAY
    /\ last_email_time' =
          IF last_email_time - (now - EMAIL_DELAY) > 0
          THEN last_email_time - (now - EMAIL_DELAY)
          ELSE 0
    /\ UNCHANGED <<pc, wifi, is_currently_full, first_full_detection, leds,
                   locals, distance, iteration, ghosts, harness>>

\* measure_distance as one step of run (line 181): it returns 100 through a
\* deadline branch, or the conversion of a pulse width
PulseWidths == {-582, 0, 582, 1164, 1746, 2328}
Readings ==
    {[d |-> Cm(SENTINEL), by_deadline |-> TRUE]}
    \cup {[d |-> DistanceOf(w), by_deadline |-> FALSE] : w \in PulseWidths}

Measure ==
    /\ pc = "measure"
    /\ \E r \in Readings : Return(r.d, r.by_deadline)
    /\ fault' = "none"
    /\ UNCHANGED <<wifi, now, throttle, leds, locals, ghosts, harness>>
    /\ UNCHANGED <<entered_full, retry, decision, send_ok, gap, gap_same_run>>

NextLive == ConnectWifi \/ Measure \/ Update \/ Sleep \/ Rebase

\* run's loop is sequential code: whatever step is next is taken.  The
\* transport is assumed not to fail forever: a send that is attempted again
\* and again succeeds at some attempt.
Delivered == Update /\ send_ok'
Fairness ==
    /\ WF_vars(ConnectWifi) /\ WF_vars(Measure)
    /\ WF_vars(Update) /\ WF_vars(Sleep) /\ WF_vars(Rebase)

SpecLive == Init /\ [][NextLive]_vars /\ Fairness /\ SF_vars(Delivered)

\* ------------------------------------------- measure_distance on its own
\* measure_distance called again and again, the echo line and the tick clock
\* behaving as they like; the polling loops are sequential code.
Remeasure ==
    /\ pc = "update"
    /\ pc' = "measure"
    /\ ticks' = 0 /\ pulse_start' = 0 /\ pulse_end' = 0 /\ timeout' = 0 /\ polls' = 0
    /\ distance' = 0
    /\ timed_out' = FALSE
    /\ UNCHANGED <<wifi, now, throttle, leds, ghosts, harness>>
    /\ UNCHANGED <<entered_full, retry, decision, send_ok, fault, gap,
                   gap_same_run>>

InitMeasure == pc = "measure" /\ InitCommon

NextMeasure == Trigger \/ WaitRise \/ WaitFall \/ Remeasure

SpecMeasure ==
    /\ InitMeasure /\ [][NextMeasure]_vars
    /\ WF_vars(Trigger) /\ WF_vars(WaitRise) /\ WF_vars(WaitFall)
    /\ WF_vars(Remeasure)

\* ------------------------------------------- exceptions inside run's try
\* the three pin objects after the first k writes of the branch of cls
PartialLeds(cls, k) ==
    [i \in 1..3 |-> IF i <= k THEN LedsFor(cls)[i] ELSE leds[i]]

ClearIteration ==
    /\ distance' = 0
    /\ timed_out' = FALSE /\ entered_full' = FALSE /\ retry' = FALSE
    /\ decision' = "skip" /\ send_ok' = FALSE
    /\ gap' = -1 /\ gap_same_run' = FALSE

OnException_outside == "done"

\* where run goes when an exception leaves the try body: the handler of the
\* same iteration, lines 185-187
OnException == "recover"

\* an exception leaves the try body for the handler at line 185
Raise(what) ==
    /\ now <= MaxFaultTime
    /\ fault' = what
    /\ pc' = OnException
    /\ UNCHANGED <<calls, scn>>

\* lines 181-182 raise
MeasureRaises ==
    /\ pc = "measure"
    /\ Raise("measure")
    /\ UNCHANGED <<wifi, now, throttle, leds, locals, distance, ghosts>>
    /\ UNCHANGED <<timed_out, entered_full, retry, decision, send_ok, gap,
                   gap_same_run>>

\* one of the three pin writes of the branch taken raises (lines 142-144,
\* 150-152, 158-160): the writes before it are done, the rest of
\* update_bin_status is not
LedWriteRaises ==
    /\ pc = "update"
    /\ \E k \in 0..2 :
        LET after == PartialLeds(Classify(distance), k)
        IN  /\ green_led' = after[1]
            /\ yellow_led' = after[2]
            /\ red_led' = after[3]
    /\ state' = Classify(distance)
    /\ Raise("led")
    /\ ticks' = 0 /\ pulse_start' = 0 /\ pulse_end' = 0 /\ timeout' = 0 /\ polls' = 0
    /\ UNCHANGED <<wifi, now, throttle, distance>>
    /\ UNCHANGED <<sent_before, sent_in_run, fail_pending>>
    /\ UNCHANGED <<timed_out, entered_full, retry, decision, send_ok, gap,
                   gap_same_run>>

\* send_email_alert raises before its try (lines 87-119): the FULL branch has
\* written the pins and is_currently_full, should_send_email has returned True
SendRaises ==
    /\ pc = "update"
    /\ Classify(distance) = "FULL"
    /\ ShouldSendEmail(now, first_full_detection, last_email_time)
    /\ green_led' = 0 /\ yellow_led' = 0 /\ red_led' = 1
    /\ is_currently_full' = TRUE
    /\ state' = "FULL"
    /\ entered_full' = (state # "FULL")
    /\ retry' = fail_pending
    /\ decision' = "yes"
    /\ send_ok' = FALSE
    /\ fail_pending' = TRUE
    /\ Raise("send")
    /\ ticks' = 0 /\ pulse_start' = 0 /\ pulse_end' = 0 /\ timeout' = 0 /\ polls' = 0
    /\ UNCHANGED <<wifi, now, last_email_time, first_full_detection, distance>>
    /\ UNCHANGED <<sent_before, sent_in_run, timed_out, gap, gap_same_run>>

\* lines 185-187
Recover ==
    /\ pc = "recover"
    /\ now + RECOVERY_SLEEP <= MaxTime
    /\ now' = now + RECOVERY_SLEEP
    /\ pc' = "measure"
    /\ ClearIteration
    /\ UNCHANGED <<wifi, throttle, leds, locals, ghosts, harness, fault>>

NextFault ==
    \/ ConnectWifi \/ Measure \/ Update \/ Sleep
    \/ MeasureRaises \/ LedWriteRaises \/ SendRaises \/ Recover \/ Rebase

SpecFault ==
    Init /\ [][NextFault]_vars /\ Fairness /\ WF_vars(Recover)

\* ------------------------------------------- update_bin_status on its own
\* A driver that calls update_bin_status with chosen distances at chosen
\* times, as a test of the method would.
ScenarioDist == <<50, 25, 8, 8, 8>>
ScenarioTime == <<0, 1, 2, 3, 302>>
ScenarioStates == <<"EMPTY", "PARTIAL", "FULL", "FULL", "FULL">>
ScenarioNotify == <<FALSE, FALSE, TRUE, FALSE, TRUE>>

\* the calls so far are exactly the first scn calls of the scenario, each
\* with a transport that delivers
OnScenario(d, o) ==
    /\ scn = calls
    /\ calls < Len(ScenarioDist)
    /\ d = ScenarioDist[calls + 1]
    /\ now = ScenarioTime[calls + 1]
    /\ SendEmailAlert(o)

HCall ==
    /\ pc = "h_call"
    /\ calls < MaxCalls
    /\ \E d \in Distances, o \in Outcomes :
        /\ UpdateBinStatus(Cm(d), o, 0)
        /\ scn' = IF OnScenario(d, o) THEN calls + 1 ELSE -1
    /\ calls' = calls + 1
    /\ pc' = "h_tick"
    /\ UNCHANGED <<locals, timed_out, wifi>>

HTick ==
    /\ pc = "h_tick"
    /\ \E g \in CallGaps :
        /\ now + g <= MaxTime
        /\ now' = now + g
    /\ pc' = "h_call"
    /\ UNCHANGED <<throttle, leds, locals, distance, iteration, ghosts, harness, wifi>>

InitUpdate == pc = "h_call" /\ InitCommon

NextUpdate == HCall \/ HTick

SpecUpdate == InitUpdate /\ [][NextUpdate]_vars

\* ================================================================ claims
Only(g, y, r) == green_led = g /\ yellow_led = y /\ red_led = r
Called == calls > 0

ClassifyRanges ==
    Called =>
        /\ state \in {"EMPTY", "PARTIAL", "FULL"}
        /\ distance > Cm(30) => state = "EMPTY" /\ Only(1, 0, 0)
        /\ (Cm(10) < distance /\ distance <= Cm(30))
              => state = "PARTIAL" /\ Only(0, 1, 0)
        /\ distance <= Cm(10) => state = "FULL" /\ Only(0, 0, 1)
ClassifySameAgain ==
    (pc = "h_call" /\ Called /\ distance' = distance) => state' = state
\* C1: every distance passed to update_bin_status is classified EMPTY above
\* 30 cm, PARTIAL above 10 cm and up to 30 cm, FULL up to 10 cm; one branch
\* is taken each time, and a call with the same distance as the call before
\* gives the same classification, whatever the session flags have become.
ClassifyContract == []ClassifyRanges /\ [][ClassifySameAgain]_vars
ClassifyContractWitness ==
    Called /\ distance = Cm(11) /\ state = "PARTIAL" /\ sent_before

\* C2 as stated: a reading of exactly 30 cm is EMPTY and one of exactly
\* 10 cm is FULL.
BoundaryTieBreakAsStated ==
    Called =>
        /\ distance = Cm(30) => state = "EMPTY"
        /\ distance = Cm(10) => state = "FULL"
\* C2 amended: a reading of exactly 30 cm is PARTIAL (yellow only) and one
\* of exactly 10 cm is FULL (red only).
BoundaryTieBreak ==
    Called =>
        /\ distance = Cm(30) => state = "PARTIAL" /\ Only(0, 1, 0)
        /\ distance = Cm(10) => state = "FULL" /\ Only(0, 0, 1)
BoundaryTieBreakWitness ==
    Called /\ distance = Cm(30) /\ state = "PARTIAL" /\ pc = "h_tick"

\* C3: from a fresh session, with every send succeeding, the distances
\* 50, 25, 8, 8, 8 at times 0, 1, 2, 3, 302 give EMPTY, PARTIAL, FULL, FULL,
\* FULL, and a send is attempted in the third and the fifth call only.
ScenarioOutcome ==
    \A k \in 1..Len(ScenarioDist) :
        scn = k => /\ state = ScenarioStates[k]
                   /\ (decision = "yes") = ScenarioNotify[k]
                   /\ send_ok = ScenarioNotify[k]
ScenarioOutcomeWitness == scn = Len(ScenarioDist) /\ last_email_time = 302

\* C4: an iteration classified FULL whose predecessor was not FULL (or that
\* has no predecessor) attempts a send in that same iteration, however
\* recent the last successful send is.
PromptAlertOnEnteringFull == entered_full => decision = "yes"
\* witness: FULL, then not FULL, then FULL again and sent inside the cooldown
PromptAlertWitness ==
    entered_full /\ send_ok /\ gap >= 0 /\ gap < EMAIL_DELAY

SuppressedStep ==
    (/\ pc = "update"
     /\ sent_in_run
     /\ state' = "FULL"
     /\ now - last_email_time < EMAIL_DELAY)
    => /\ decision' = "no"
       /\ ~send_ok'
       /\ last_email_time' = last_email_time
       /\ now' = now
\* C5: once a send has succeeded, a following iteration classified FULL with
\* no non-FULL classification in between and less than EMAIL_DELAY on the
\* clock since last_email_time decides not to send and sends nothing.
SuppressionWhileFull == [][SuppressedStep]_vars
SuppressionWitness ==
    pc = "sleep" /\ sent_in_run /\ state = "FULL" /\ decision = "no"

\* C6 as stated: any two consecutive successful notifications are at least
\* EMAIL_DELAY apart.
CooldownGapAlways == gap # -1 => gap >= EMAIL_DELAY
\* C6 amended: two consecutive successful notifications with no non-FULL
\* classification between them are at least EMAIL_DELAY apart.
CooldownGapWithinRun == (gap # -1 /\ gap_same_run) => gap >= EMAIL_DELAY
CooldownGapWitness == gap # -1 /\ gap_same_run /\ send_ok

CooldownElapsedStep ==
    (/\ pc = "update"
     /\ state = "FULL"
     /\ state' = "FULL"
     /\ ~first_full_detection
     /\ now - last_email_time >= EMAIL_DELAY)
    => decision' = "yes"
\* C7: a FULL iteration that follows a FULL one, with first_full_detection
\* false and the clock at or past last_email_time + EMAIL_DELAY, attempts a
\* send.
ThrottleLiveness == [][CooldownElapsedStep]_vars
ThrottleLivenessWitness ==
    /\ decision = "yes" /\ ~entered_full /\ ~retry
    /\ ~send_ok /\ ~first_full_detection

FailedSendStep ==
    (pc = "update" /\ decision' = "yes" /\ ~send_ok')
    => /\ last_email_time' = last_email_time
       /\ first_full_detection' = first_full_detection
       /\ pc' = "sleep"
\* C8: a send that fails leaves last_email_time and first_full_detection as
\* they were, the loop goes on to its sleep, and the next iteration
\* classified FULL attempts a send again.
FailedSendKeepsState ==
    [][FailedSendStep]_vars /\ [](retry => decision = "yes")
FailedSendWitness == retry /\ decision = "yes" /\ ~first_full_detection

\* C9: a measurement that returns through a deadline branch returns 100, and
\* its iteration is classified EMPTY: green only, should_send_email not
\* evaluated, nothing sent.
TimeoutSafety ==
    timed_out =>
        /\ pc \in {"update", "sleep"}
        /\ distance = Cm(100)
        /\ pc = "sleep" =>
              /\ state = "EMPTY" /\ Only(1, 0, 0)
              /\ decision = "skip" /\ ~send_ok
              /\ ~is_currently_full
TimeoutSafetyWitness ==
    timed_out /\ pc = "sleep" /\ state = "EMPTY" /\ sent_before

\* C10: a measurement that does not return through a deadline branch returns
\* a distance that is not negative.
NonNegativeReading == (pc = "update" /\ ~timed_out) => distance >= 0

\* C11: whenever an iteration has classified a reading, exactly one LED is
\* on, the one of the classification (green EMPTY, yellow PARTIAL, red FULL),
\* also when a pin write of that iteration raised.
IndicatorExclusive ==
    state # "NONE" =>
        /\ green_led + yellow_led + red_led = 1
        /\ leds = LedsFor(state)

HandlerStep ==
    /\ (pc \in {"measure", "update"} /\ pc' \notin {pc, "update", "sleep"})
          => pc' = "recover" /\ fault' # "none"
    /\ (pc = "recover" /\ pc' # "recover")
          => pc' = "measure" /\ now' = now + RECOVERY_SLEEP
    /\ (pc = "sleep" /\ pc' # "sleep")
          => pc' = "measure" /\ now' = now + LOOP_SLEEP
\* C12: once connect_wifi has succeeded run never ends; an exception raised
\* by the measurement, the LED writes or the send takes run to its handler,
\* which sleeps RECOVERY_SLEEP (a finished iteration sleeps LOOP_SLEEP) and
\* goes on to the next measurement; a measurement is always taken again.
LoopSurvivesFaults ==
    /\ [][HandlerStep]_vars
    /\ [](wifi = "up" => pc \in {"measure", "update", "sleep", "recover"})
    /\ (wifi = "up") ~> (pc = "measure")
    /\ (pc = "recover") ~> (pc = "measure")
LoopSurvivesFaultsWitness ==
    pc = "measure" /\ fault = "send" /\ is_currently_full

\* C13: connect_wifi is called once; when it returned false run has ended
\* with no measurement made, no LED written, no send decided or made, and
\* the session fields as __init__ left them.
FailClosedStartup ==
    /\ pc = "connect" <=> wifi = "none"
    /\ pc = "done" <=> wifi = "down"
    /\ wifi = "down" =>
          /\ locals = <<0, 0, 0, 0, 0>> /\ distance = 0 /\ ~timed_out
          /\ leds = <<0, 0, 0>> /\ state = "NONE"
          /\ decision = "skip" /\ ~send_ok /\ ~sent_before /\ ~fail_pending
          /\ throttle = <<0, FALSE, TRUE>>
FailClosedStartupWitness == wifi = "down" /\ pc = "done" /\ now > 0

\* C14: is_currently_full is true exactly when the latest classification was
\* FULL, also after iterations that ended in run's handler, and false before
\* any classification.
FullFlagTracksClass == is_currently_full <=> state = "FULL"

StaysFalseStep ==
    /\ (pc = "update" /\ send_ok') => ~first_full_detection'
    /\ (~first_full_detection /\ first_full_detection')
          => pc = "update" /\ state' \in {"EMPTY", "PARTIAL"}
\* C15: first_full_detection is true only when no send has succeeded since
\* the latest non-FULL classification; a successful send leaves it false, and
\* it becomes true again only in an iteration classified EMPTY or PARTIAL.
FirstDetectionFlag ==
    /\ [](first_full_detection => ~sent_in_run)
    /\ [][StaysFalseStep]_vars
FirstDetectionFlagWitness ==
    ~first_full_detection /\ sent_in_run /\ send_ok /\ ~entered_full

\* C16: after an update_bin_status call classified EMPTY or PARTIAL,
\* is_currently_full is false and first_full_detection is true; in every
\* state is_currently_full = false implies first_full_detection = true.
ResetOnNonFull ==
    /\ (pc = "sleep" /\ state \in {"EMPTY", "PARTIAL"})
          => ~is_currently_full /\ first_full_detection
    /\ ~is_currently_full => first_full_detection
ResetOnNonFullWitness ==
    /\ pc = "sleep" /\ state = "PARTIAL" /\ sent_before
    /\ ~is_currently_full /\ first_full_detection

NonFullStep ==
    /\ (pc = "update" /\ state' \in {"EMPTY", "PARTIAL"})
          => /\ decision' = "skip" /\ ~send_ok'
             /\ last_email_time' = last_email_time
             /\ now' = now
    /\ last_email_time' # last_email_time
          => pc = "update" /\ state' = "FULL" /\ decision' = "yes"
\* C17: an iteration classified EMPTY or PARTIAL does not evaluate
\* should_send_email, sends nothing and leaves last_email_time and the clock
\* as they were; a send is decided or made only in an iteration classified
\* FULL, with red on and the other two LEDs off.
SendOnlyWhenFull ==
    /\ [][NonFullStep]_vars
    /\ []((decision # "skip" \/ send_ok)
             => state = "FULL" /\ Only(0, 0, 1) /\ is_currently_full)
SendOnlyWhenFullWitness ==
    /\ pc = "sleep" /\ state = "EMPTY" /\ decision = "skip"
    /\ sent_before /\ now - last_email_time >= EMAIL_DELAY

InLoops == pc \in {"wait_rise", "wait_fall"}
DeadlineInv ==
    /\ pc = "wait_rise" => timeout = ticks_add(pulse_end, 30000)
    /\ (InLoops /\ polls > 0) => ticks_diff(ticks, timeout) <= 0
    /\ (pc = "update" /\ timed_out)
          => ticks_diff(ticks, timeout) > 0 /\ distance = Cm(100)
DeadlineStep ==
    /\ InLoops => timeout' = timeout
    /\ (pc = "measure" /\ pc' = "wait_rise")
          => timeout' = ticks_add(ticks', 30000)
    /\ (InLoops /\ ticks' # ticks /\ ticks_diff(ticks', timeout) > 0)
          => pc' = "update" /\ timed_out' /\ distance' = Cm(100)
\* C18: measure_distance always returns: the deadline is set once, 30000 us
\* after the clock read that follows the trigger pulse, and neither loop
\* changes it; a loop pass that finds the clock past it returns 100 at once,
\* so no pass begins with the clock past it; every call reaches its return.
MeasureAlwaysReturns ==
    /\ []DeadlineInv
    /\ [][DeadlineStep]_vars
    /\ (pc = "measure") ~> (pc = "update")
MeasureAlwaysReturnsWitness ==
    /\ pc = "update" /\ timed_out
    /\ ticks_diff(pulse_end, pulse_start) > 0

AttemptsUntilSuccess ==
    (pc = "sleep" /\ state = "FULL" /\ ~sent_in_run)
        => decision = "yes" /\ first_full_detection
\* C19: while no send has succeeded since the bin became FULL every FULL
\* iteration attempts one; when connect_wifi succeeded and the transport does
\* not fail forever, either a non-FULL classification keeps recurring or
\* sends keep succeeding, each EMAIL_DELAY or more after the one before.
EventualDelivery ==
    /\ []AttemptsUntilSuccess
    /\ []CooldownGapWithinRun
    /\ \/ <>(pc = "done")
       \/ []<>(pc = "sleep" /\ state # "FULL")
       \/ []<>(send_ok /\ pc = "sleep")
EventualDeliveryWitness ==
    send_ok /\ gap_same_run /\ retry /\ gap >= EMAIL_DELAY

====
